---------------------------- MODULE Spec2Model ----------------------------
(***************************************************************************)
(* Model of src/app.py: wagering_sim_with_history_bal, the wagering        *)
(* requirement simulator, and the classification main() derives from the   *)
(* last record of the history it returns.                                  *)
(*                                                                         *)
(* Money.  The program computes with IEEE-754 binary64 numbers (Python     *)
(* float).  Every float the function handles lies within a few units in    *)
(* the last place of a whole number of pence, so a float is modelled       *)
(* EXACTLY as a pair <<c, r>> of integers standing for the real number     *)
(*                                                                         *)
(*        c / 100  +  r * U          with   U = 1 / (25 * 2^59).           *)
(*                                                                         *)
(* One penny is 2^57 U, and every binary64 number >= 2^-7 is a whole       *)
(* multiple of 2^-59 = 25 U, so r is always an integer, and it is small:   *)
(* the distance of the float from c pence.  The decimal 0.05 is not a      *)
(* binary64 number; the literal 0.05 denotes <<5, 40>>, slightly above     *)
(* five pence.  Fl rounds an exact value to the nearest binary64 number    *)
(* (ties to even), which is what every float +, - and * does.              *)
(***************************************************************************)
EXTENDS Integers, Sequences, FiniteSets

VARIABLES
    pc,         \* where control is: "call", "loop", "ret", "done"
    start_bal,  \* argument start_bal, in pence as typed (the float is D(start_bal))
    WR,         \* argument WR (an integer, as st.number_input returns it)
    av_stake,   \* argument av_stake, in pence as typed
    seed,       \* argument seed: NoSeed (None) or a non-negative integer
    bal,        \* local bal (a float)
    total_bet,  \* local total_bet (a float)
    no_bets,    \* local no_bets
    stake,      \* local stake of the latest iteration (a float)
    xt,         \* local xt: the latest sampled outcome
    history,    \* local history: the sequence of records (spins, balance, total_bet)
    exit,       \* how the while loop was left: "none", "A", "B", "cond"
    rng,        \* the process-wide generator np.random: <<stream, position>>
    calls,      \* number of calls of the function made so far in this process
    results     \* the calls returned so far, in order: <<arguments, history>>, the
                \* history kept for the seeded calls only

vars == <<pc, start_bal, WR, av_stake, seed, bal, total_bet, no_bets, stake, xt,
          history, exit, rng, calls, results>>

---------------------------------------------------------------------------
(* Bounds of the model.                                                    *)

MaxBal == 20        \* starting balances 1 .. MaxBal pence
MaxStake == 20      \* average stakes 1 .. MaxStake pence
MaxWR == 3          \* wagering multipliers 1 .. MaxWR
MaxSteps == 7       \* configurations whose step bound is at most MaxSteps
MaxSeed == 1        \* seeds 0 .. MaxSeed
MaxCalls == 3       \* calls in one process (SessionSpec)

---------------------------------------------------------------------------
(* binary64 arithmetic on <<c, r>> pairs.                                  *)

Zero == <<0, 0>>

Pow2(n) == 2 ^ n

\* 2^n mod 25 (the powers of 2 repeat mod 25 with period 20)
Pow2Mod25(n) == (2 ^ (n % 20)) % 25

\* value <<c, r>> >= 2^(g-7), for c >= 1
AtLeastPow2(c, r, g) ==
    128 * c > 100 * Pow2(g) \/ (128 * c = 100 * Pow2(g) /\ r >= 0)

\* The binade of a positive value <<c, r>>, c >= 1: the g with
\* 2^(g-7) <= value < 2^(g-6).  In that binade binary64 numbers are 25 * 2^g U
\* apart.  (Amounts below 2^14 pounds.)
Binade(c, r) ==
    CHOOSE g \in 0..20 : (g = 0 \/ AtLeastPow2(c, r, g)) /\ ~AtLeastPow2(c, r, g + 1)

Neg(x) == <<0 - x[1], 0 - x[2]>>

\* Round a positive exact value to the nearest binary64 number, ties to even.
\* N = c * 2^57 + r is the value in units of U; only N mod 2M is needed.
FlPos(x) ==
    LET c == x[1]
        r == x[2]
        g == Binade(c, r)
        M == 25 * Pow2(g)
        cm == Pow2(g + 1) * (((c % 25) * Pow2Mod25(56 - g)) % 25)
        rho2 == (cm + r) % (2 * M)
        rho == rho2 % M
        odd == rho2 >= M
    IN  IF 2 * rho < M \/ (2 * rho = M /\ ~odd)
        THEN <<c, r - rho>>
        ELSE <<c, r - rho + M>>

\* Round an exact value to binary64.  A value closer to 0 than one penny arises
\* only as the difference of two neighbouring floats, which is exact.
Fl(x) ==
    IF x[1] = 0 THEN x
    ELSE IF x[1] < 0 THEN Neg(FlPos(Neg(x)))
    ELSE FlPos(x)

\* The float nearest to c pence: a parsed decimal, or the result of round(_, 2).
D(c) == Fl(<<c, 0>>)

Leq(x, y) == x[1] < y[1] \/ (x[1] = y[1] /\ x[2] <= y[2])
Lt(x, y) == x[1] < y[1] \/ (x[1] = y[1] /\ x[2] < y[2])

Add(x, y) == Fl(<<x[1] + y[1], x[2] + y[2]>>)
Sub(x, y) == Fl(<<x[1] - y[1], x[2] - y[2]>>)
\* float times a Python int
Mul(x, m) == Fl(<<x[1] * m, x[2] * m>>)
\* Python's min(x, y): y only when y < x
Min(x, y) == IF Lt(y, x) THEN y ELSE x

\* The granularity in pence, and the float the literal 0.05 denotes.
GPence == 5
G == D(GPence)

\* bal % 0.05 for bal >= 0: the exact remainder bal - n * 0.05 with
\* n = floor(bal / 0.05), all in floats' exact values.
Fmod(x) ==
    LET n0 == x[1] \div GPence
        n == IF x[1] % GPence # 0 \/ x[2] >= G[2] * n0 THEN n0 ELSE n0 - 1
    IN  <<x[1] - GPence * n, x[2] - G[2] * n>>

\* round(x, 2): the float nearest to the nearest whole number of pence
Round2(x) == D(x[1])

---------------------------------------------------------------------------
(* The outcome model.                                                      *)

Outcomes == <<0, 1, 3, 11>>
OutcomeSet == {Outcomes[i] : i \in 1..Len(Outcomes)}

\* seed=None
NoSeed == -1

\* The outcome a generator seeded with s yields at its i-th draw (i = 0, 1, ...):
\* a fixed function of s and i.
Draw(s, i) == Outcomes[((((s + 1) * (i + 1)) + ((i * i) \div 2)) % 4) + 1]

\* the seed ignored
SeedIgnored(g, s) == g

\* lines 19-20: np.random.seed(seed)
SeedRng(g, s) == IF s # NoSeed THEN <<s, 0>> ELSE g

\* The outcomes np.random.choice may return in generator state g: a generator
\* nobody seeded runs from operating-system entropy, any outcome may come.
Choice(g) == IF g[1] = NoSeed THEN OutcomeSet ELSE {Draw(g[1], g[2])}

Advance(g) == <<g[1], g[2] + 1>>

---------------------------------------------------------------------------
(* The function, statement by statement.                                   *)

x0 == D(start_bal)
k == WR

\* the loop condition written bal > 0.05
LoopCondStrict(b) == Lt(G, b)

\* line 30
LoopCond(b) == Leq(G, b)

\* the stake without "bal -": the remainder itself
StakeRemainder(b) == Min(D(av_stake), Fmod(b))

\* the stake without the clamp
StakeUnclamped(b) == D(av_stake)

\* line 31
Stake(b) == Min(D(av_stake), Sub(b, Fmod(b)))

\* line 35, right-hand side
Target == Mul(x0, k)

\* the requirement tested on the balance instead of the total staked
WageringMetOnBalance(t) == Leq(Target, bal)

\* the requirement tested with > instead of >=
WageringMetStrict(t) == Lt(Target, t)

\* line 35
WageringMetCond(t) == Leq(Target, t)

\* the gross payout: stake * xt, without the "- 1"
PayoutGross(s, o) == Mul(s, o)

\* line 44, right-hand side: stake * (xt - 1)
Payout(s, o) == Mul(s, o - 1)

\* line 54
BustCond(b) == Leq(b, Zero)

Rec(n, b, t) == [spins |-> n, balance |-> b, total_bet |-> t]

Last(h) == h[Len(h)]

\* the cap on the iterations of one call that the model explores
SpinCap == MaxSteps + 1

\* lines 19-28
Enter ==
    /\ pc = "call"
    /\ rng' = SeedRng(rng, seed)
    /\ bal' = x0
    /\ total_bet' = Zero
    /\ no_bets' = 0
    /\ history' = <<Rec(0, Round2(x0), Zero)>>
    /\ pc' = "loop"
    /\ calls' = calls + 1
    /\ UNCHANGED <<start_bal, WR, av_stake, seed, stake, xt, exit, results>>

\* lines 30-40: the stake reaches the requirement
WageringMet ==
    /\ pc = "loop"
    /\ LoopCond(bal)
    /\ Len(history) <= SpinCap
    /\ LET s == Stake(bal)
           t == Add(total_bet, s)
       IN  /\ WageringMetCond(t)
           /\ stake' = s
           /\ total_bet' = t
           /\ history' = Append(history, Rec(no_bets + 1, bal, t))
    /\ pc' = "ret"
    /\ exit' = "A"
    /\ UNCHANGED <<start_bal, WR, av_stake, seed, bal, no_bets, xt, rng, calls, results>>

\* lines 30-35 and 43-55: the spin
Spin ==
    /\ pc = "loop"
    /\ LoopCond(bal)
    /\ Len(history) <= SpinCap
    /\ LET s == Stake(bal)
           t == Add(total_bet, s)
       IN  /\ ~WageringMetCond(t)
           /\ stake' = s
           /\ total_bet' = t
           /\ \E o \in Choice(rng) :
                LET b == Round2(Add(bal, Payout(s, o)))
                IN  /\ xt' = o
                    /\ bal' = b
                    /\ history' = Append(history, Rec(no_bets + 1, b, t))
                    /\ IF BustCond(b)
                       THEN pc' = "ret" /\ exit' = "B"
                       ELSE pc' = "loop" /\ exit' = exit
    /\ rng' = Advance(rng)
    /\ no_bets' = no_bets + 1
    /\ UNCHANGED <<start_bal, WR, av_stake, seed, calls, results>>

\* line 30: the loop condition fails
LoopExit ==
    /\ pc = "loop"
    /\ ~LoopCond(bal)
    /\ pc' = "ret"
    /\ exit' = "cond"
    /\ UNCHANGED <<start_bal, WR, av_stake, seed, bal, total_bet, no_bets, stake, xt,
                   history, rng, calls, results>>

\* lines 140-146 of main(): the outcome shown for a returned history
Classify(h) ==
    IF Leq(Last(h).balance, Zero) THEN "LOST"
    ELSE IF Leq(Mul(D(start_bal), WR), Last(h).total_bet) THEN "WON"
    ELSE "INCOMPLETE"

\* line 57
Return ==
    /\ pc = "ret"
    /\ pc' = "done"
    /\ results' = Append(results, <<start_bal, WR, av_stake, seed,
                                     IF seed # NoSeed THEN history ELSE <<>> >>)
    /\ UNCHANGED <<start_bal, WR, av_stake, seed, bal, total_bet, no_bets, stake, xt,
                   history, exit, rng, calls>>

---------------------------------------------------------------------------
(* One call, for every configuration within the bounds.                    *)

CeilDiv(a, b) == (a + b - 1) \div b
MinP(a, b) == IF a <= b THEN a ELSE b

\* ceil(WR * start_bal / min(av_stake, G)), in pence
StepBound(s, w, a) == CeilDiv(w * s, MinP(a, GPence))

Valid(s, w, a) == s > 0 /\ w >= 1 /\ a > 0

ValidConfigs ==
    {c \in (1..MaxBal) \X (1..MaxWR) \X (1..MaxStake) :
        StepBound(c[1], c[2], c[3]) < MaxSteps}

\* the configurations the specification names
NamedConfigs == {<<100, 1, 100>>, <<5, 1, 5>>}

\* the invalid configurations the specification names
InvalidConfigs == {<<0, 1, 5>>, <<5, 0, 5>>, <<5, 1, -5>>}

Configs == ValidConfigs \cup NamedConfigs \cup InvalidConfigs

Seeds == {NoSeed} \cup (0..MaxSeed)

InitWith(cfgs) ==
    /\ pc = "call"
    /\ \E c \in cfgs : start_bal = c[1] /\ WR = c[2] /\ av_stake = c[3]
    /\ seed \in Seeds
    /\ bal = Zero
    /\ total_bet = Zero
    /\ no_bets = 0
    /\ stake = Zero
    /\ xt = 0
    /\ history = <<>>
    /\ exit = "none"
    /\ rng = <<NoSeed, 0>>
    /\ calls = 0
    /\ results = <<>>

Init == InitWith(Configs)

Next == Enter \/ WageringMet \/ Spin \/ LoopExit \/ Return

Spec == Init /\ [][Next]_vars

---------------------------------------------------------------------------
(* Several calls in one process, one after the other (the function is      *)
(* synchronous and the process single-threaded): main() calls it at every  *)
(* click of the button, line 85.                                           *)

SessionConfigs == {<<5, 2, 5>>, <<7, 1, 3>>}

NextCall ==
    /\ pc = "done"
    /\ calls < MaxCalls
    /\ pc' = "call"
    /\ \E c \in SessionConfigs : start_bal' = c[1] /\ WR' = c[2] /\ av_stake' = c[3]
    /\ seed' \in Seeds
    /\ bal' = Zero
    /\ total_bet' = Zero
    /\ no_bets' = 0
    /\ stake' = Zero
    /\ xt' = 0
    /\ history' = <<>>
    /\ exit' = "none"
    /\ UNCHANGED <<rng, calls, results>>

SessionInit == InitWith(SessionConfigs)

SessionNext == Enter \/ WageringMet \/ Spin \/ LoopExit \/ Return \/ NextCall

SessionSpec == SessionInit /\ [][SessionNext]_vars


---------------------------------------------------------------------------
(* The claims.                                                             *)

ValidCfg == Valid(start_bal, WR, av_stake)
Steps == Len(history) - 1
Returned == pc = "done"
OnGrid == start_bal % GPence = 0 /\ av_stake % GPence = 0

\* a statement of the call can execute: the guards of Enter, of WageringMet or
\* Spin (one of the two tests of line 35 holds), of LoopExit and of Return
CanStep ==
    \/ pc = "call"
    \/ pc = "loop" /\ LoopCond(bal) /\ Len(history) <= SpinCap
    \/ pc = "loop" /\ ~LoopCond(bal)
    \/ pc = "ret"

\* C1: for every valid configuration and every sequence of outcomes the call
\* terminates, and the number of steps taken, the records after the initial one,
\* is at most ceil(WR * start_bal / min(av_stake, G)) + 1.  Every iteration of the
\* loop appends one record, so a run of at most that many records with a next
\* statement to execute until it has returned is a run that returns.
C1_TerminatesWithinStepBound ==
    ValidCfg =>
        /\ Steps <= StepBound(start_bal, WR, av_stake) + 1
        /\ Returned \/ CanStep

\* a returned run that took one step more than ceil(WR * start_bal / min stake)
C1_Witness ==
    /\ ValidCfg
    /\ Returned
    /\ Steps = StepBound(start_bal, WR, av_stake) + 1

\* C2: total_bet strictly increases from every record to the next, and the latest
\* record's total_bet is the previous record's plus the stake of that step, a
\* stake greater than 0.
C2_TotalBetStrictlyIncreases ==
    ValidCfg =>
        /\ \A i \in 2..Len(history) :
              Lt(history[i - 1].total_bet, history[i].total_bet)
        /\ Len(history) >= 2 =>
              /\ Lt(Zero, stake)
              /\ Last(history).total_bet = Add(history[Len(history) - 1].total_bet, stake)

\* a returned run of three steps whose last step met the requirement
C2_Witness ==
    /\ ValidCfg
    /\ Returned
    /\ exit = "A"
    /\ Len(history) >= 4

\* C3: when stopping rule A fires, one final record is appended with the previous
\* record's balance, the next step index and the updated total, and no outcome is
\* sampled for that step; in particular start_bal = 1.00, WR = 1, av_stake = 1.00
\* returns exactly the records 0 and 1, with the same balance.
C3_RuleARecordAndOneStakeExample ==
    /\ exit = "A" =>
          /\ Last(history).balance = history[Len(history) - 1].balance
          /\ Last(history).spins = history[Len(history) - 1].spins + 1
          /\ Last(history).total_bet = total_bet
          /\ no_bets = history[Len(history) - 1].spins
    /\ (start_bal = 100 /\ WR = 1 /\ av_stake = 100 /\ Returned) =>
          /\ Len(history) = 2
          /\ exit = "A"
          /\ history[2].balance = history[1].balance

\* C4: a call with an invalid configuration (start_bal = 0, WR = 0 or
\* av_stake = -0.05) is rejected before any simulation state is created: it never
\* has a history record and never samples an outcome.
C4_InvalidConfigurationRejected ==
    ~ValidCfg => (history = <<>> /\ no_bets = 0 /\ pc = "call")

\* C5: a run given a seed leaves the process-wide random source unchanged.
C5_SeededRunLeavesProcessGenerator ==
    [][seed # NoSeed => rng' = rng]_vars

SameCall(p, q) == p[1] = q[1] /\ p[2] = q[2] /\ p[3] = q[3] /\ p[4] = q[4]

\* C6: two calls with the same start_bal, WR, av_stake and the same seed (not
\* None) return the same history, whatever calls were made before or between them.
C6_SameSeedSameHistory ==
    \A i, j \in DOMAIN results :
        (results[i][4] # NoSeed /\ SameCall(results[i], results[j]))
            => results[i][5] = results[j][5]

\* the same seeded call returned twice, with outcomes sampled, and a call with
\* another seed or none between the two
C6_Witness ==
    /\ Len(results) = 3
    /\ results[1][4] # NoSeed
    /\ SameCall(results[1], results[3])
    /\ results[2][4] # results[1][4]
    /\ Len(results[3][5]) >= 3

\* C7: with start_bal and av_stake positive multiples of G, every returned run
\* ends with total_bet >= WR * start_bal or with balance <= 0.
C7_OnGridNeverIncomplete ==
    (ValidCfg /\ OnGrid /\ Returned) =>
        \/ Leq(Mul(D(start_bal), WR), Last(history).total_bet)
        \/ Leq(Last(history).balance, Zero)

\* a run on the grid that went bust after more than one spin
C7_Witness ==
    /\ ValidCfg
    /\ OnGrid
    /\ Returned
    /\ exit = "B"
    /\ Len(history) >= 3

\* C8: the final record has total_bet >= WR * start_bal exactly when rule A ended
\* the run, never together with balance <= 0, and the classification of main()
\* names the way the run ended.
C8_ClassificationNamesTheRule ==
    (ValidCfg /\ Returned) =>
        /\ Leq(Mul(D(start_bal), WR), Last(history).total_bet) <=> exit = "A"
        /\ ~(/\ Leq(Last(history).balance, Zero)
             /\ Leq(Mul(D(start_bal), WR), Last(history).total_bet))
        /\ Classify(history) = "WON" <=> exit = "A"
        /\ Classify(history) = "LOST" <=> exit = "B"
        /\ Classify(history) = "INCOMPLETE" <=> exit = "cond"

\* a run that went bust with its last stake one short of the requirement
C8_Witness ==
    /\ ValidCfg
    /\ Returned
    /\ exit = "B"
    /\ Len(history) >= 3
    /\ Classify(history) = "LOST"
    /\ Leq(Mul(D(start_bal), WR), Add(Last(history).total_bet, D(av_stake)))

FirstStepOneOutcome ==
    /\ stake = history[1].balance
    /\ stake = D(GPence)
    /\ no_bets = 1
    /\ xt \in OutcomeSet
    /\ history[2].balance = D(GPence * xt)

\* C9 as stated: with start_bal = 0.05 and av_stake = 0.05, for every valid WR,
\* the first stake is the whole balance and the record at step 1 has the balance
\* 0.05 * outcome of the one outcome sampled.
C9_FirstStepSamplesForEveryWR ==
    (start_bal = GPence /\ av_stake = GPence /\ WR >= 1 /\ Len(history) = 2) =>
        FirstStepOneOutcome

\* C9, amended: the same for every WR > 1 (with WR = 1 the first stake meets the
\* requirement, and rule A ends the run without sampling).
C9_FirstStepSamplesForWRAboveOne ==
    (start_bal = GPence /\ av_stake = GPence /\ WR > 1 /\ Len(history) = 2) =>
        FirstStepOneOutcome

\* the first spin of such a run paid eleven times the stake
C9_Witness ==
    /\ start_bal = GPence /\ av_stake = GPence /\ WR > 1
    /\ Len(history) = 2
    /\ xt = 11
    /\ history[2].balance = D(55)

\* C10: the stake of every step is greater than 0 and at most the balance it is
\* taken from, no record has a negative balance, a bust leaves the balance at
\* exactly 0, and a run that leaves the loop on its condition has 0 <= bal < G.
C10_StakeWithinBalance ==
    ValidCfg =>
        /\ \A i \in DOMAIN history : Leq(Zero, history[i].balance)
        /\ Len(history) >= 2 =>
              /\ Lt(Zero, stake)
              /\ Leq(stake, history[Len(history) - 1].balance)
        /\ exit = "B" => Last(history).balance = Zero
        /\ exit = "cond" => (Leq(Zero, bal) /\ Lt(bal, G))

\* a run that stopped after a spin with a balance left that is below G
C10_Witness ==
    /\ ValidCfg
    /\ Returned
    /\ exit = "cond"
    /\ Len(history) >= 2
    /\ Lt(Zero, bal)

=============================================================================
